---- MODULE Spec2Model ----
(***************************************************************************)
(* pyFIR: real-time FIR filtering by block convolution (src/pyFIR.py).     *)
(*                                                                         *)
(* The class FIRfilter is modelled as a record of its attributes; every    *)
(* method is an operator from the object (and the arguments) to the        *)
(* object after the call, the value returned and the exception raised.     *)
(*                                                                         *)
(* Numbers.  Impulse responses and audio blocks are integer sequences, so  *)
(* all arithmetic is exact.  A spectrum (the value of numpy.fft.fft) is    *)
(* represented by the unique length-n time sequence it is the transform    *)
(* of: fft(x, n) zero-pads or truncates x to n samples as numpy does, the  *)
(* element-wise product of two spectra is the circular convolution of the  *)
(* two sequences (convolution theorem), the sum of spectra is the sum of   *)
(* the sequences, and ifft(..).real reads the sequence back (all signals   *)
(* are real).  Wrap-around of a too short transform is therefore kept.     *)
(*                                                                         *)
(* None and a missing attribute are written 0 for a size and << >> for an  *)
(* array (sizes are >= 1 and arrays non-empty once set).                   *)
(***************************************************************************)
EXTENDS Integers, Sequences, FiniteSets, TLC

VARIABLES
    E,        \* the engines under observation: a sequence of FIRfilter objects
    ctor,     \* per engine: the constructor call (arguments and exception)
    calls,    \* per engine: the process calls so far (arguments, result, exception)
    pc,       \* "new" before construction, "ready" after, "failed" if it raised
    opt       \* the optimizer run on its own: arguments and result

vars == <<E, ctor, calls, pc, opt>>

----------------------------------------------------------------------------
(* Bounds of the model *)

MaxB == 2          \* block sizes 1..MaxB
MaxNh == 3         \* impulse-response lengths 1..MaxNh
MaxL == 2          \* caller-supplied partition lengths 1..MaxL
MaxCalls == 2      \* process calls per engine
MaxOptN == 12      \* optimizer checked alone: N in 1..MaxOptN
MaxOptB == 8       \* optimizer checked alone: B in 1..MaxOptB

None == << >>
NoSize == 0

----------------------------------------------------------------------------
(* Arithmetic helpers *)

Abs(a) == IF a < 0 THEN -a ELSE a
Min2(a, b) == IF a <= b THEN a ELSE b
Max2(a, b) == IF a >= b THEN a ELSE b

RECURSIVE gcd(_, _)
gcd(a, b) == IF b = 0 THEN a ELSE gcd(b, a % b)

RECURSIVE Pow2(_)
Pow2(k) == IF k = 0 THEN 1 ELSE 2 * Pow2(k - 1)

\* int(np.log2(n)) for n >= 1
RECURSIVE FloorLog2(_)
FloorLog2(n) == IF n < 2 THEN 0 ELSE 1 + FloorLog2(n \div 2)

\* np.ceil(np.log2(n)) for n >= 1
CeilLog2(n) == IF Pow2(FloorLog2(n)) = n THEN FloorLog2(n) ELSE FloorLog2(n) + 1

CeilDiv(a, b) == (a + b - 1) \div b

RECURSIVE SumSeq(_)
SumSeq(s) == IF s = << >> THEN 0 ELSE Head(s) + SumSeq(Tail(s))

Zeros(n) == [i \in 1..n |-> 0]

\* s[a:b] of Python for 0 <= a, clipped at the end of s
Slice(s, a, b) == [i \in 1..(Min2(b, Len(s)) - Min2(a, Len(s))) |-> s[a + i]]

\* s[-n:] for 1 <= n <= Len(s)
LastN(s, n) == [i \in 1..n |-> s[Len(s) - n + i]]

\* np.roll(a, shift) on a one-dimensional array (or on the rows of a matrix)
roll(a, shift) == [i \in 1..Len(a) |-> a[((i - 1 - shift) % Len(a)) + 1]]

----------------------------------------------------------------------------
(* numpy.fft under the time-domain representation of spectra *)

fft(x, n) == [i \in 1..n |-> IF i <= Len(x) THEN x[i] ELSE 0]

\* sum over j = 1..upto of X[j] * H[(k - j) mod n], indices from 1
RECURSIVE CircConvAt(_, _, _, _)
CircConvAt(X, H, k, upto) ==
    IF upto = 0 THEN 0
    ELSE X[upto] * H[((k - upto) % Len(X)) + 1] + CircConvAt(X, H, k, upto - 1)

\* X * H of two spectra of the same size: circular convolution
SpecMul(X, H) == [k \in 1..Len(X) |-> CircConvAt(X, H, k, Len(X))]

RECURSIVE ColumnSum(_, _, _)
ColumnSum(rows, k, upto) ==
    IF upto = 0 THEN 0 ELSE rows[upto][k] + ColumnSum(rows, k, upto - 1)

\* np.sum(rows, axis=0) of a list of spectra of size n
SpecSum(rows, n) == [k \in 1..n |-> ColumnSum(rows, k, Len(rows))]

ifft_real(Y) == Y

----------------------------------------------------------------------------
(* FIRfilter.pad_the_end, pad_beginning *)

pad_the_end(x, new_length) ==
    IF Len(x) < new_length
    THEN [i \in 1..new_length |-> IF i <= Len(x) THEN x[i] ELSE 0]
    ELSE x

pad_beginning(x, padding) ==
    [i \in 1..(Len(x) + padding) |-> IF i <= padding THEN 0 ELSE x[i - padding]]

----------------------------------------------------------------------------
(* FIRfilter.optimize_UPOLS_parameters *)

\* floor(1000 * log2(K)) for K = 1..65
Log2Milli ==
    << 0, 1000, 1584, 2000, 2321, 2584, 2807, 3000, 3169, 3321, 3459, 3584, 3700,
       3807, 3906, 4000, 4087, 4169, 4247, 4321, 4392, 4459, 4523, 4584, 4643,
       4700, 4754, 4807, 4857, 4906, 4954, 5000, 5044, 5087, 5129, 5169, 5209,
       5247, 5285, 5321, 5357, 5392, 5426, 5459, 5491, 5523, 5554, 5584, 5614,
       5643, 5672, 5700, 5727, 5754, 5781, 5807, 5832, 5857, 5882, 5906, 5930,
       5954, 5977, 6000, 6022 >>

\* the candidate partition lengths: [2**k for k in range(0, int(np.log2(N)))]
rang(N) == {Pow2(k) : k \in 0..(FloorLog2(N) - 1)}

K_min(L, B) == B + L + (B - gcd(L, B)) - 1

K_range(L, B) ==
    LET K_max == Pow2(CeilLog2(K_min(L, B)))
        lo == Min2(K_min(L, B), K_max)
        hi == Max2(K_min(L, B), K_max)
    IN lo..(IF lo = hi THEN hi + 1 ELSE hi)

\* B * cost(B, N, L, K) scaled by 100000 * S, S a multiple of L, so that the
\* value is an integer; candidates of one search share B, N and S.
cost(N, L, K, S) ==
      168 * K * Log2Milli[K] * S
    + 349 * K * Log2Milli[K] * S
    + 100000 * S * 3 * (K + 1)
    + 100000 * ((N * S) \div L - S) * 4 * (K + 1)

Scanned(N, B) == {c \in rang(N) \X (1..65) : c[2] \in K_range(c[1], B)}

\* c1 is visited no later than c2 by the two nested loops
ScanBefore(c1, c2) == c1[1] < c2[1] \/ (c1[1] = c2[1] /\ c1[2] <= c2[2])

optimize_UPOLS_parameters(N, B) ==
    IF rang(N) = {}
    THEN [err |-> "UnboundLocalError", L |-> NoSize, K |-> NoSize]
    ELSE LET S == Pow2(FloorLog2(N) - 1)
             best == CHOOSE c \in Scanned(N, B) :
                        \A d \in Scanned(N, B) :
                            \/ cost(N, c[1], c[2], S) < cost(N, d[1], d[2], S)
                            \/ /\ cost(N, c[1], c[2], S) = cost(N, d[1], d[2], S)
                               /\ ScanBefore(c, d)
         IN [err |-> "", L |-> best[1], K |-> best[2]]

----------------------------------------------------------------------------
(* The FIRfilter object *)

\* str.lower on the method names the callers use
lower(s) ==
    CASE s = "OLS" -> "ols"
      [] s = "OLA" -> "ola"
      [] s = "UPOLS" -> "upols"
      [] s = "Overlap-Save" -> "overlap-save"
      [] s = "Overlap-Add" -> "overlap-add"
      [] s = "NUPOLS" -> "nupols"
      [] OTHER -> s

validMethods == {"overlap-save", "overlap-add", "ols", "ola", "upols"}

\* the message of the assertion: the method refused and the supported ones
error_msg(e) == [unknown |-> e.method, supported |-> validMethods]
NoMsg == [unknown |-> "", supported |-> {}]

\* the 0-dimensional array np.squeeze makes of a 1 x 1 array
Scalar0d == << >>

\* np.squeeze(np.zeros((n, N_ch))) with N_ch = 1
squeeze_zeros(n) == IF n = 1 THEN Scalar0d ELSE Zeros(n)

\* np.any(h != stored_h): "true", "false" or "raise" (ValueError).  Arrays of
\* shapes that do not broadcast compare as "all different" (with a warning)
\* before numpy 1.25 and raise from 1.25 on: strict tells which numpy runs.
any_not_equal(h, stored_h, strict) ==
    IF stored_h = None THEN "true"
    ELSE IF Len(h) = Len(stored_h)
         THEN IF \E i \in 1..Len(h) : h[i] # stored_h[i] THEN "true" ELSE "false"
    ELSE IF Len(h) = 1 \/ Len(stored_h) = 1
         THEN IF \E i \in 1..Len(h), j \in 1..Len(stored_h) : h[i] # stored_h[j]
              THEN "true" ELSE "false"
    ELSE IF strict THEN "raise" ELSE "true"

\* FIRfilter.generate_ref for a one-dimensional impulse response
generate_ref(e) ==
    [e EXCEPT !.ref = SumSeq([i \in 1..Len(e.stored_h) |-> Abs(e.stored_h[i])]),
              !.N_ch = 1]

\* FIRfilter.__init__: the object and the exception raised ("" if none)
init(method, B, h, partition, normalize) ==
    LET e0 == [method |-> lower(method), B |-> B, NFFT |-> NoSize,
               flagIRchanged |-> TRUE, stored_h |-> h,
               Nh |-> NoSize, ref |-> 0, N_ch |-> 0,
               left_overs |-> None, len_y_left |-> NoSize,
               partition |-> NoSize, normalize |-> FALSE,
               OLS_input_buffer |-> None, input_buffer |-> None,
               P |-> NoSize, nm |-> None, H |-> None, FDL |-> None]
        e1 == IF h # None THEN generate_ref([e0 EXCEPT !.Nh = Len(h)]) ELSE e0
        e2 == [e1 EXCEPT !.left_overs = Zeros(B), !.partition = partition,
                         !.normalize = normalize]
        o  == optimize_UPOLS_parameters(e2.Nh, B)
    IN IF e2.method \notin validMethods
       THEN [e |-> e2, err |-> "AssertionError", msg |-> error_msg(e2)]
       ELSE IF e2.method = "upols" /\ partition = NoSize /\ h # None
       THEN IF o.err # ""
            THEN [e |-> e2, err |-> o.err, msg |-> NoMsg]
            ELSE [e |-> [e2 EXCEPT !.partition = o.L, !.NFFT = o.K], err |-> "",
                  msg |-> NoMsg]
       ELSE [e |-> e2, err |-> "", msg |-> NoMsg]

\* FIRfilter.normalize_output: data / self.ref, kept as numerators and denominator
normalize_output(e, data) == [num |-> data, den |-> e.ref]

\* what a method returns: the block (with its denominator) or an exception
Returned(e, data) ==
    IF e.normalize
    THEN [e |-> e, out |-> normalize_output(e, data).num,
          den |-> normalize_output(e, data).den, err |-> ""]
    ELSE [e |-> e, out |-> data, den |-> 1, err |-> ""]

Raised(e, exc) == [e |-> e, out |-> None, den |-> 1, err |-> exc]

\* fft_conv as it would be if a transform once stored were never replaced
\* (the flag is cleared, H is computed only when there is none)
fft_conv_KeepsH(e, x) ==
    LET X == fft(x, e.NFFT)
        e1 == IF e.flagIRchanged
              THEN [e EXCEPT !.H = IF e.H = None THEN fft(e.stored_h, e.NFFT) ELSE e.H,
                             !.flagIRchanged = FALSE]
              ELSE e
    IN [e |-> e1, y |-> ifft_real(SpecMul(X, e1.H))]

\* FIRfilter.fft_conv: the object afterwards and the value returned
fft_conv(e, x) ==
    LET X == fft(x, e.NFFT)
        e1 == IF e.flagIRchanged
              THEN [e EXCEPT !.H = fft(e.stored_h, e.NFFT), !.flagIRchanged = FALSE]
              ELSE e
    IN [e |-> e1, y |-> ifft_real(SpecMul(X, e1.H))]

\* buf[-B:] = x : numpy broadcasts a length-1 x, refuses any other length but B
CanAssignTail(B, x) == Len(x) = B \/ Len(x) = 1

AssignTail(buf, B, x) ==
    [i \in 1..Len(buf) |->
        IF i <= Len(buf) - B THEN buf[i]
        ELSE IF Len(x) = 1 THEN x[1] ELSE x[i - (Len(buf) - B)]]

\* FIRfilter.OLA
OLA(e, x, h) ==
    IF e.NFFT = NoSize /\ h = None THEN Raised(e, "AttributeError")
    ELSE
    LET e1 == IF e.NFFT = NoSize
              THEN [e EXCEPT !.NFFT = e.B + Len(h) - 1,
                             !.left_overs = squeeze_zeros(e.B + Len(h) - 1),
                             !.len_y_left = (e.B + Len(h) - 1) - e.B]
              ELSE e
        c  == fft_conv(e1, x)
        e2 == c.e
        y  == c.y
        out == [i \in 1..e2.B |-> y[i] + e2.left_overs[i]]
        rolled == roll(e2.left_overs, -e2.B)
        flushed == [i \in 1..Len(rolled) |->
                       IF i > Len(rolled) - e2.B THEN 0 ELSE rolled[i]]
        carried == [i \in 1..Len(flushed) |->
                       IF i <= e2.len_y_left THEN flushed[i] + y[e2.B + i]
                       ELSE flushed[i]]
    IN IF e2.left_overs = Scalar0d THEN Raised(e2, "IndexError")
       ELSE Returned([e2 EXCEPT !.left_overs = carried], out)

\* OLS as it would be if a changed impulse response rebuilt the input buffer
\* (the setup keyed on the changed flag as in UPOLS)
OLS_RebuildsOnChange(e, x, h) ==
    IF e.NFFT = NoSize /\ h = None THEN Raised(e, "AttributeError")
    ELSE
    LET e1 == IF e.NFFT = NoSize \/ e.flagIRchanged
              THEN [e EXCEPT !.NFFT = e.B + Len(h) - 1,
                             !.OLS_input_buffer = Zeros(e.B + Len(h) - 1)]
              ELSE e
        e2 == [e1 EXCEPT !.OLS_input_buffer = roll(e1.OLS_input_buffer, -e1.B)]
        e3 == [e2 EXCEPT !.OLS_input_buffer = AssignTail(e2.OLS_input_buffer, e2.B, x)]
        c  == fft_conv(e3, e3.OLS_input_buffer)
    IN IF ~CanAssignTail(e2.B, x) THEN Raised(e2, "ValueError")
       ELSE Returned(c.e, LastN(c.y, c.e.B))

\* OLS as it would be if the input buffer were shifted by one sample per call
OLS_ShiftsByOne(e, x, h) ==
    IF e.NFFT = NoSize /\ h = None THEN Raised(e, "AttributeError")
    ELSE
    LET e1 == IF e.NFFT = NoSize
              THEN [e EXCEPT !.NFFT = e.B + Len(h) - 1,
                             !.OLS_input_buffer = Zeros(e.B + Len(h) - 1)]
              ELSE e
        e2 == [e1 EXCEPT !.OLS_input_buffer = roll(e1.OLS_input_buffer, -1)]
        e3 == [e2 EXCEPT !.OLS_input_buffer = AssignTail(e2.OLS_input_buffer, e2.B, x)]
        c  == fft_conv(e3, e3.OLS_input_buffer)
    IN IF ~CanAssignTail(e2.B, x) THEN Raised(e2, "ValueError")
       ELSE Returned(c.e, LastN(c.y, c.e.B))

\* FIRfilter.OLS
OLS(e, x, h) ==
    IF e.NFFT = NoSize /\ h = None THEN Raised(e, "AttributeError")
    ELSE
    LET e1 == IF e.NFFT = NoSize
              THEN [e EXCEPT !.NFFT = e.B + Len(h) - 1,
                             !.OLS_input_buffer = Zeros(e.B + Len(h) - 1)]
              ELSE e
        e2 == [e1 EXCEPT !.OLS_input_buffer = roll(e1.OLS_input_buffer, -e1.B)]
        e3 == [e2 EXCEPT !.OLS_input_buffer = AssignTail(e2.OLS_input_buffer, e2.B, x)]
        c  == fft_conv(e3, e3.OLS_input_buffer)
    IN IF ~CanAssignTail(e2.B, x) THEN Raised(e2, "ValueError")
       ELSE Returned(c.e, LastN(c.y, c.e.B))

\* UPOLS_setup as it would be if the number of partitions were rounded down
\* (a final partial partition is dropped)
UPOLS_setup_WholePartitions(e, h, L_partit) ==
    LET Nh == Len(h)
        P == Max2(Nh \div L_partit, 1)
        h_partit(m) == Slice(h, m * L_partit, m * L_partit + L_partit)
        dm(m) == (m * L_partit) % e.B
        h_pad(m) == pad_beginning(h_partit(m), dm(m))
        nm == [m1 \in 1..P |-> ((m1 - 1) * L_partit) \div e.B]
        maxnm == CHOOSE v \in {nm[m1] : m1 \in 1..P} : \A m1 \in 1..P : nm[m1] <= v
    IN [e EXCEPT !.P = P,
                 !.input_buffer = Zeros(e.NFFT),
                 !.nm = nm,
                 !.H = [m1 \in 1..P |-> fft(h_pad(m1 - 1), e.NFFT)],
                 !.FDL = [r \in 1..(maxnm + 1) |-> Zeros(e.NFFT)],
                 !.flagIRchanged = FALSE]

\* UPOLS_setup as it would be if the active slots were rounded up
UPOLS_setup_SlotsRoundedUp(e, h, L_partit) ==
    LET Nh == Len(h)
        P == CeilDiv(Nh, L_partit)
        h_partit(m) == Slice(h, m * L_partit, m * L_partit + L_partit)
        dm(m) == (m * L_partit) % e.B
        h_pad(m) == pad_beginning(h_partit(m), dm(m))
        nm == [m1 \in 1..P |-> CeilDiv((m1 - 1) * L_partit, e.B)]
        maxnm == CHOOSE v \in {nm[m1] : m1 \in 1..P} : \A m1 \in 1..P : nm[m1] <= v
    IN [e EXCEPT !.P = P,
                 !.input_buffer = Zeros(e.NFFT),
                 !.nm = nm,
                 !.H = [m1 \in 1..P |-> fft(h_pad(m1 - 1), e.NFFT)],
                 !.FDL = [r \in 1..(maxnm + 1) |-> Zeros(e.NFFT)],
                 !.flagIRchanged = FALSE]

\* UPOLS, lines 211-231: partition the filter, build H, the active slots and the FDL
UPOLS_setup(e, h, L_partit) ==
    LET Nh == Len(h)
        P == CeilDiv(Nh, L_partit)
        h_partit(m) == Slice(h, m * L_partit, m * L_partit + L_partit)
        dm(m) == (m * L_partit) % e.B
        h_pad(m) == pad_beginning(h_partit(m), dm(m))
        nm == [m1 \in 1..P |-> ((m1 - 1) * L_partit) \div e.B]
        maxnm == CHOOSE v \in {nm[m1] : m1 \in 1..P} : \A m1 \in 1..P : nm[m1] <= v
    IN [e EXCEPT !.P = P,
                 !.input_buffer = Zeros(e.NFFT),
                 !.nm = nm,
                 !.H = [m1 \in 1..P |-> fft(h_pad(m1 - 1), e.NFFT)],
                 !.FDL = [r \in 1..(maxnm + 1) |-> Zeros(e.NFFT)],
                 !.flagIRchanged = FALSE]

\* UPOLS_stream as it would be if the FDL were not shifted (row 0 overwritten
\* in place)
UPOLS_stream_NoShift(e, x) ==
    LET e1 == [e EXCEPT !.input_buffer = roll(e.input_buffer, -e.B)]
        e2 == [e1 EXCEPT !.input_buffer = AssignTail(e1.input_buffer, e1.B, x)]
        shifted == e2.FDL
        FDL == [shifted EXCEPT ![1] = fft(e2.input_buffer, Len(e2.input_buffer))]
        prod == [m1 \in 1..e2.P |-> SpecMul(FDL[e2.nm[m1] + 1], e2.H[m1])]
        out == ifft_real(SpecSum(prod, e2.NFFT))
    IN IF ~CanAssignTail(e1.B, x) THEN Raised(e1, "ValueError")
       ELSE Returned([e2 EXCEPT !.FDL = FDL], LastN(out, e2.B))

\* UPOLS, lines 233-246: slide the input window, shift the FDL, multiply and sum
UPOLS_stream(e, x) ==
    LET e1 == [e EXCEPT !.input_buffer = roll(e.input_buffer, -e.B)]
        e2 == [e1 EXCEPT !.input_buffer = AssignTail(e1.input_buffer, e1.B, x)]
        shifted == roll(e2.FDL, 1)
        FDL == [shifted EXCEPT ![1] = fft(e2.input_buffer, Len(e2.input_buffer))]
        prod == [m1 \in 1..e2.P |-> SpecMul(FDL[e2.nm[m1] + 1], e2.H[m1])]
        out == ifft_real(SpecSum(prod, e2.NFFT))
    IN IF ~CanAssignTail(e1.B, x) THEN Raised(e1, "ValueError")
       ELSE Returned([e2 EXCEPT !.FDL = FDL], LastN(out, e2.B))

\* UPOLS as it would be if a given partition set NFFT = B + L - 1, without the
\* room for the remainder delays
UPOLS_NoDelayRoom(e, x, h) ==
    IF ~e.flagIRchanged THEN UPOLS_stream(e, x)
    ELSE IF h = None THEN Raised(e, "AttributeError")
    ELSE IF e.partition = NoSize
    THEN LET o == optimize_UPOLS_parameters(Len(h), e.B)
         IN IF o.err # "" THEN Raised(e, o.err)
            ELSE UPOLS_stream(
                    UPOLS_setup([e EXCEPT !.partition = o.L, !.NFFT = o.K], h, o.L), x)
    ELSE LET L_partit == e.partition
         IN UPOLS_stream(
                UPOLS_setup([e EXCEPT !.NFFT = e.B + L_partit - 1], h, L_partit), x)

\* FIRfilter.UPOLS
UPOLS(e, x, h) ==
    IF ~e.flagIRchanged THEN UPOLS_stream(e, x)
    ELSE IF h = None THEN Raised(e, "AttributeError")
    ELSE IF e.partition = NoSize
    THEN LET o == optimize_UPOLS_parameters(Len(h), e.B)
         IN IF o.err # "" THEN Raised(e, o.err)
            ELSE UPOLS_stream(
                    UPOLS_setup([e EXCEPT !.partition = o.L, !.NFFT = o.K], h, o.L), x)
    ELSE LET L_partit == e.partition
             dmax == e.B - gcd(L_partit, e.B)
         IN UPOLS_stream(
                UPOLS_setup([e EXCEPT !.NFFT = e.B + L_partit + dmax], h, L_partit), x)

\* FIRfilter.process (strict: the numpy that runs it, see any_not_equal)
process(e, x, h, strict) ==
    LET cmp == IF h = None THEN "false" ELSE any_not_equal(h, e.stored_h, strict)
        e1 == IF cmp = "true"
              THEN generate_ref([e EXCEPT !.flagIRchanged = TRUE, !.stored_h = h])
              ELSE e
        h1 == IF cmp = "true" THEN h ELSE e.stored_h
    IN IF cmp = "raise" THEN Raised(e, "ValueError")
       ELSE IF e1.method = "overlap-save" \/ e1.method = "ols" THEN OLS(e1, x, h1)
       ELSE IF e1.method = "overlap-add" \/ e1.method = "ola" THEN OLA(e1, x, h1)
       ELSE UPOLS(e1, x, h1)

----------------------------------------------------------------------------
(* Arguments the callers pass *)

MethodArgs == {"overlap-save", "OLA", "UPOLS"}

Ramp(n) == [i \in 1..n |-> i]
Flat(n) == [i \in 1..n |-> -1]

\* impulse responses of every length 1..MaxNh
IRs == {Ramp(n) : n \in 1..MaxNh} \cup {Flat(n) : n \in 1..MaxNh}

\* The input streams, sample n = 1, 2, ...: a ramp 1, 2, 3, ... and a stream
\* of unit samples -1, 1, 1, -1, 1, 1, ... (every sample in [-1, 1])
RampStream(n) == n
UnitStream(n) == IF n % 3 = 1 THEN -1 ELSE 1
StreamNames == {"ramp", "unit"}
Sample(s, n) == IF s = "ramp" THEN RampStream(n) ELSE UnitStream(n)

\* block k = 1, 2, ... of stream s cut into blocks of B samples
Block(s, k, B) == [i \in 1..B |-> Sample(s, (k - 1) * B + i)]

\* blocks of a wrong length: one sample, or one sample too many
BadBlocks(B) == {[i \in 1..n |-> 1] : n \in {1, B + 1} \ {B}}

\* the scenario of the documentation: N = 8, B = 4, blocks [1,2,3,4], [5,6,7,8]
\* (the first two blocks of the ramp)
ScenarioH == <<1, 0, 0, 0, 0, 0, 0, 1>>
ScenarioB == Len(ScenarioH) \div 2
ScenarioLs == 1..Len(ScenarioH)

IsScenario(e) == e.B = ScenarioB

\* partition arguments: None, or a length (UPOLS only)
PartitionArgs(method, Ls) == IF lower(method) = "upols" THEN {NoSize} \cup Ls ELSE {NoSize}

GeneralArgs ==
    {a \in [method : MethodArgs, B : 1..MaxB, h : {None} \cup IRs,
            partition : {NoSize} \cup (1..MaxL), normalize : BOOLEAN] :
        a.partition \in PartitionArgs(a.method, 1..MaxL)}

ScenarioArgs ==
    {a \in [method : MethodArgs, B : {ScenarioB}, h : {None, ScenarioH},
            partition : {NoSize} \cup ScenarioLs, normalize : {FALSE}] :
        a.partition \in PartitionArgs(a.method, ScenarioLs)}

CallsMade == Len(calls[1])

IRGiven == \E k \in 1..CallsMade : calls[1][k].h # None
BadBlockGiven == \E k \in 1..CallsMade : Len(calls[1][k].x) # E[1].B

\* the stream the caller feeds: any before the first call, then the one begun
Feeding ==
    IF CallsMade = 0 THEN IF IsScenario(E[1]) THEN {"ramp"} ELSE StreamNames
    ELSE {s \in StreamNames : Sample(s, 1) = calls[1][1].x[1]}

\* a caller passes the next block of its stream, with or without an impulse
\* response (at most once per run), or a block of a wrong length
GoodArgs ==
    {[x |-> Block(s, CallsMade + 1, E[1].B), h |-> h] :
        s \in Feeding,
        h \in IF IRGiven THEN {None}
              ELSE IF IsScenario(E[1]) THEN {None, ScenarioH}
              ELSE {None} \cup IRs}

BadArgs ==
    IF IsScenario(E[1]) THEN {}
    ELSE {[x |-> b, h |-> None] : b \in BadBlocks(E[1].B)}

----------------------------------------------------------------------------
(* The state machine *)

NoOpt == [N |-> 0, B |-> 0, done |-> FALSE, res |-> [err |-> "", L |-> 0, K |-> 0]]

Init ==
    /\ E = << >>
    /\ ctor = << >>
    /\ calls = << >>
    /\ pc = "new"
    /\ opt = NoOpt

\* FIRfilter(method, B, h, partition, normalize)
Construct ==
    /\ pc = "new"
    /\ \E a \in GeneralArgs \cup ScenarioArgs :
        LET r == init(a.method, a.B, a.h, a.partition, a.normalize)
        IN /\ ctor' = << [args |-> a, err |-> r.err] >>
           /\ IF r.err = ""
              THEN E' = << r.e >> /\ calls' = << << >> >> /\ pc' = "ready"
              ELSE E' = << >> /\ calls' = << >> /\ pc' = "failed"
    /\ UNCHANGED opt

CallRecord(x, h, r) == [x |-> x, h |-> h, out |-> r.out, den |-> r.den, err |-> r.err]

\* engine.process(x, h) on every engine under observation, under either numpy
Process ==
    /\ pc = "ready"
    /\ CallsMade < MaxCalls
    /\ ~BadBlockGiven
    /\ \E a \in GoodArgs \cup BadArgs, strict \in BOOLEAN :
        \E R \in {[i \in DOMAIN E |-> process(E[i], a.x, a.h, strict)]} :
            /\ a.h = None => ~strict
            /\ E' = [i \in DOMAIN E |-> R[i].e]
            /\ calls' = [i \in DOMAIN E |-> Append(calls[i], CallRecord(a.x, a.h, R[i]))]
    /\ UNCHANGED <<ctor, pc, opt>>

Next == Construct \/ Process

Spec == Init /\ [][Next]_vars

----------------------------------------------------------------------------
(* The optimizer on its own *)

InitOpt ==
    /\ E = << >> /\ ctor = << >> /\ calls = << >> /\ pc = "opt"
    /\ opt \in [N : 1..MaxOptN, B : 1..MaxOptB, done : {FALSE}, res : {NoOpt.res}]

Optimize ==
    /\ pc = "opt"
    /\ ~opt.done
    /\ opt' = [opt EXCEPT !.done = TRUE, !.res = optimize_UPOLS_parameters(opt.N, opt.B)]
    /\ UNCHANGED <<E, ctor, calls, pc>>

NextOpt == Optimize

SpecOpt == InitOpt /\ [][NextOpt]_vars

----------------------------------------------------------------------------
(* Two engines fed the same calls, built alike but for the impulse response *)

PairArgs ==
    {p \in GeneralArgs \X IRs : p[1].h # None /\ p[1].h # p[2]}

ConstructPair ==
    /\ pc = "new"
    /\ \E p \in PairArgs :
        LET a  == p[1]
            b  == [a EXCEPT !.h = p[2]]
            ra == init(a.method, a.B, a.h, a.partition, a.normalize)
            rb == init(b.method, b.B, b.h, b.partition, b.normalize)
        IN /\ ra.err = "" /\ rb.err = ""
           /\ ctor' = << [args |-> a, err |-> ""], [args |-> b, err |-> ""] >>
           /\ E' = << ra.e, rb.e >>
           /\ calls' = << << >>, << >> >>
           /\ pc' = "ready"
    /\ UNCHANGED opt

NextPair == ConstructPair \/ Process

SpecPair == Init /\ [][NextPair]_vars

----------------------------------------------------------------------------
(* Reading the run of the first engine *)

Eng == E[1]
Args == ctor[1].args
Calls == calls[1]
Last == Calls[Len(Calls)]

Running == pc = "ready" /\ Len(Calls) >= 1

IsOLS(e) == e.method = "overlap-save" \/ e.method = "ols"
IsOLA(e) == e.method = "overlap-add" \/ e.method = "ola"
IsUPOLS(e) == e.method = "upols"

\* every block passed so far has B samples
GoodShapes == \A k \in 1..Len(Calls) : Len(Calls[k].x) = Eng.B

\* every sample passed so far lies in [-1, 1]
UnitInput == \A k \in 1..Len(Calls) : \A i \in 1..Len(Calls[k].x) : Abs(Calls[k].x[i]) <= 1

\* the run uses one impulse response: given at construction (and then omitted
\* or repeated), or first given to the first process call
TheIR == IF Args.h # None THEN Args.h ELSE Calls[1].h

FixedIR ==
    /\ Len(Calls) >= 1
    /\ TheIR # None
    /\ \A k \in 1..Len(Calls) : Calls[k].h \in {None, TheIR}

\* sample n = 1, 2, ... of the concatenated input (blocks of B samples)
InputAt(n) == Calls[((n - 1) \div Eng.B) + 1].x[((n - 1) % Eng.B) + 1]

\* sample n of the direct linear convolution of the input with h, the input
\* taken from sample `from` on (earlier samples count as zero)
RECURSIVE LinConvFrom(_, _, _, _)
LinConvFrom(h, n, from, k) ==
    IF k = 0 THEN 0
    ELSE (IF n - k + 1 >= from THEN h[k] * InputAt(n - k + 1) ELSE 0)
         + LinConvFrom(h, n, from, k - 1)

LinConv(h, n) == LinConvFrom(h, n, 1, Len(h))

\* call k returned block k of the linear convolution with h, not normalized
ReturnsLinConv(h, k) ==
    /\ Calls[k].err = ""
    /\ Calls[k].den = 1
    /\ Len(Calls[k].out) = Eng.B
    /\ \A i \in 1..Eng.B : Calls[k].out[i] = LinConv(h, (k - 1) * Eng.B + i)

----------------------------------------------------------------------------
(* C1 *)

\* C1: with one impulse response, blocks of B samples and normalize off, the
\* blocks returned by OLA and by OLS are, call after call, the linear
\* convolution of the concatenated input with the impulse response.
C1_OutputIsLinearConvolution ==
    (Running /\ (IsOLA(Eng) \/ IsOLS(Eng)) /\ ~Eng.normalize /\ FixedIR /\ GoodShapes)
        => \A k \in 1..Len(Calls) : ReturnsLinConv(TheIR, k)

\* the same, but for the overlap-add engine of one-sample blocks and a
\* one-tap impulse response (NFFT = 1)
C1_ButNFFT1 ==
    (Running /\ (IsOLA(Eng) \/ IsOLS(Eng)) /\ ~Eng.normalize /\ FixedIR /\ GoodShapes
        /\ ~(IsOLA(Eng) /\ Eng.NFFT = 1))
        => \A k \in 1..Len(Calls) : ReturnsLinConv(TheIR, k)

\* the documented scenario: two blocks of the ramp through h = [1,0,0,0,0,0,0,1]
C1_ScenarioReached ==
    /\ Running /\ IsScenario(Eng) /\ (IsOLA(Eng) \/ IsOLS(Eng)) /\ Len(Calls) = 2
    /\ TheIR = ScenarioH
    /\ Calls[1].out = <<1, 2, 3, 4>> /\ Calls[2].out = <<5, 6, 7, 9>>

----------------------------------------------------------------------------
(* C2 *)

Constructed == pc \in {"ready", "failed"} /\ Len(ctor) >= 1

\* C2: with one impulse response, blocks of B samples and normalize off, an
\* UPOLS engine is built and returns, call after call, the linear convolution
\* of the concatenated input with the impulse response, for every partition
\* length given by the caller and for the one the optimizer chooses, the
\* impulse response being given at construction or to the first process call.
C2_UPOLSIsLinearConvolution ==
    (Constructed /\ lower(Args.method) = "upols" /\ ~Args.normalize)
        => /\ ctor[1].err = ""
           /\ (Running /\ GoodShapes /\ FixedIR)
                => \A k \in 1..Len(Calls) : ReturnsLinConv(TheIR, k)

\* the same, leaving out the optimizer run on a one-tap impulse response
C2_ButOptimizerOnOneTap ==
    (Constructed /\ lower(Args.method) = "upols" /\ ~Args.normalize
        /\ ~(Args.partition = NoSize /\ Args.h # None /\ Len(Args.h) = 1)
        /\ ~(Args.partition = NoSize /\ pc = "ready" /\ Len(Calls) >= 1
               /\ Args.h = None /\ Len(Calls[1].h) = 1))
        => /\ ctor[1].err = ""
           /\ (Running /\ GoodShapes /\ FixedIR)
                => \A k \in 1..Len(Calls) : ReturnsLinConv(TheIR, k)

----------------------------------------------------------------------------
(* C3 *)

\* call k returned a block whose samples, once divided by the reference, lie
\* in [-1, 1]
WithinUnit(k) ==
    /\ Calls[k].den > 0
    /\ \A i \in 1..Len(Calls[k].out) : Abs(Calls[k].out[i]) <= Calls[k].den

\* C3: with normalize on and every input block of B samples in [-1, 1], every sample a
\* process call returns lies in [-1, 1], whatever the method and also when a
\* call supplies a new impulse response.
C3_NormalizedOutputWithinUnit ==
    (Running /\ Eng.normalize /\ GoodShapes /\ UnitInput)
        => \A k \in 1..Len(Calls) : Calls[k].err = "" => WithinUnit(k)

\* the same for the runs that keep one impulse response, and for the methods
\* other than overlap-add
C3_ButOLASwitch ==
    (Running /\ Eng.normalize /\ GoodShapes /\ UnitInput /\ (FixedIR \/ ~IsOLA(Eng)))
        => \A k \in 1..Len(Calls) : Calls[k].err = "" => WithinUnit(k)

----------------------------------------------------------------------------
(* C5 *)

\* C5: after every successful process call of an OLA or OLS engine,
\* NFFT >= B + Nh - 1 for the length Nh of the stored impulse response.
C5_NFFTCoversStoredIR ==
    (Running /\ (IsOLA(Eng) \/ IsOLS(Eng)) /\ Last.err = "")
        => Eng.NFFT >= Eng.B + Len(Eng.stored_h) - 1

\* the same for the runs that keep one impulse response
C5_ButSwitch ==
    (Running /\ (IsOLA(Eng) \/ IsOLS(Eng)) /\ Last.err = "" /\ FixedIR)
        => Eng.NFFT >= Eng.B + Len(Eng.stored_h) - 1

----------------------------------------------------------------------------
(* C4 *)

\* call k gave both engines an impulse response that neither was built with
SwitchedAt(k) ==
    /\ Calls[k].h # None
    /\ Calls[k].h # ctor[1].args.h
    /\ Calls[k].h # ctor[2].args.h

SameResult(j) ==
    /\ calls[1][j].err = calls[2][j].err
    /\ calls[1][j].out = calls[2][j].out
    /\ calls[1][j].den = calls[2][j].den

\* C4: two engines built with different impulse responses, fed the same
\* blocks and switched to the same new impulse response at block k, return
\* the same blocks from block k on.
C4_OutputAfterSwitchForgetsOldIR ==
    (pc = "ready" /\ Len(E) = 2 /\ GoodShapes)
        => \A k \in 1..Len(Calls) :
              SwitchedAt(k) => \A j \in k..Len(Calls) : SameResult(j)

\* the same for UPOLS engines, when the change is noticed by both
C4_UPOLSNoticed ==
    (pc = "ready" /\ Len(E) = 2 /\ GoodShapes /\ IsUPOLS(Eng))
        => \A k \in 1..Len(Calls) :
              (SwitchedAt(k) /\ E[1].stored_h = Calls[k].h /\ E[2].stored_h = Calls[k].h)
                  => \A j \in k..Len(Calls) : SameResult(j)

----------------------------------------------------------------------------
(* Reading one process call of the first engine as a step *)

\* the step is a process call; Last' is its record
ProcessStep == pc = "ready" /\ pc' = "ready" /\ Len(calls'[1]) = Len(calls[1]) + 1

SumAbs(h) == SumSeq([i \in 1..Len(h) |-> Abs(h[i])])

\* buf after the call is buf shifted left by B samples with x in the last B
ShiftedIn(after, before, x, B) ==
    /\ Len(after) = Len(before)
    /\ \A i \in 1..Len(after) :
          after[i] = IF i <= Len(after) - B THEN before[i + B]
                     ELSE x[i - (Len(after) - B)]

\* coefficient of the transform row of partition m (from 0) of h at index i:
\* the partition h[m*L : m*L + L], delayed by (m*L) mod B, zero elsewhere
PartitionCoef(h, L, B, m, i) ==
    LET d == (m * L) % B
        j == m * L + (i - d)
    IN IF i > d /\ i <= d + L /\ j <= Len(h) THEN h[j] ELSE 0

\* the transform H of engine e is the one of the impulse response h
HBuiltFrom(e, h) ==
    IF IsUPOLS(e)
    THEN /\ Len(e.H) = CeilDiv(Len(h), e.partition)
         /\ \A m \in 1..Len(e.H) :
               /\ Len(e.H[m]) = e.NFFT
               /\ \A i \in 1..e.NFFT :
                     e.H[m][i] = PartitionCoef(h, e.partition, e.B, m - 1, i)
    ELSE /\ Len(e.H) = e.NFFT
         /\ \A i \in 1..e.NFFT : e.H[i] = IF i <= Len(h) THEN h[i] ELSE 0

----------------------------------------------------------------------------
(* C6 *)

\* C6: a process call given an impulse response h that differs by value from
\* the stored one (other coefficients or another length) stores h and its
\* reference and, if it returns, has built H from h; a call given no impulse
\* response, or one equal to the stored one, leaves the stored impulse
\* response, H and the cleared flag as they are.
C6_ChangeOfIRIsNoticed ==
    [][ProcessStep =>
          /\ (Last'.h # None /\ Last'.h # Eng.stored_h)
                => /\ Eng'.stored_h = Last'.h
                   /\ Eng'.ref = SumAbs(Last'.h)
                   /\ Last'.err = "" => HBuiltFrom(Eng', Last'.h)
          /\ ((Last'.h = None \/ Last'.h = Eng.stored_h) /\ ~Eng.flagIRchanged)
                => /\ Eng'.stored_h = Eng.stored_h
                   /\ Eng'.ref = Eng.ref
                   /\ Eng'.H = Eng.H
                   /\ ~Eng'.flagIRchanged
       ]_vars

\* the same when the two impulse responses have the same length
C6_ButOtherLength ==
    [][ProcessStep =>
          /\ (Last'.h # None /\ Last'.h # Eng.stored_h
                /\ (Eng.stored_h = None \/ Len(Last'.h) = Len(Eng.stored_h)))
                => /\ Eng'.stored_h = Last'.h
                   /\ Eng'.ref = SumAbs(Last'.h)
                   /\ Last'.err = "" => HBuiltFrom(Eng', Last'.h)
          /\ ((Last'.h = None \/ Last'.h = Eng.stored_h) /\ ~Eng.flagIRchanged)
                => /\ Eng'.stored_h = Eng.stored_h
                   /\ Eng'.ref = Eng.ref
                   /\ Eng'.H = Eng.H
                   /\ ~Eng'.flagIRchanged
       ]_vars

----------------------------------------------------------------------------
(* C8 *)

\* C8: a process call whose block has not B samples raises an error, returns
\* no block and leaves the engine as it was.
C8_WrongBlockLengthIsRefused ==
    [][(ProcessStep /\ Len(Last'.x) # Eng.B)
          => (Last'.err # "" /\ Last'.out = None /\ E' = E)]_vars

----------------------------------------------------------------------------
(* C9 *)

\* the engine holds nothing that depends on an impulse response
Uninitialized(e) ==
    /\ e.stored_h = None /\ e.NFFT = NoSize /\ e.flagIRchanged
    /\ e.H = None /\ e.OLS_input_buffer = None /\ e.input_buffer = None /\ e.FDL = None

\* a call without impulse response to an engine that never had one raises and
\* changes nothing
C9_NoIRRaises ==
    [][(ProcessStep /\ Eng.stored_h = None /\ Last'.h = None)
          => (Last'.err # "" /\ E' = E /\ Uninitialized(Eng'))]_vars

\* the block the first call of a fresh engine is to return for block x and
\* impulse response h: the first B samples of the convolution of x with h
RECURSIVE FirstBlockAt(_, _, _, _)
FirstBlockAt(x, h, n, k) ==
    IF k = 0 THEN 0
    ELSE (IF n - k + 1 >= 1 THEN h[k] * x[n - k + 1] ELSE 0) + FirstBlockAt(x, h, n, k - 1)

FirstBlock(x, h) == [n \in 1..Len(x) |-> FirstBlockAt(x, h, n, Min2(n, Len(h)))]

\* the first call that brings an impulse response sets the engine up and
\* returns the first block, but for the overlap-add engine with NFFT = 1 and
\* the optimizer run on a one-tap impulse response
C9_FirstIRSetsUpButDegenerate ==
    [][(ProcessStep /\ Eng.stored_h = None /\ Last'.h # None /\ Len(Last'.x) = Eng.B
          /\ ~(IsOLA(Eng) /\ Eng.B = 1 /\ Len(Last'.h) = 1)
          /\ ~(IsUPOLS(Eng) /\ Eng.partition = NoSize /\ Len(Last'.h) = 1))
          => /\ Last'.err = ""
             /\ Last'.out = FirstBlock(Last'.x, Last'.h)
             /\ Last'.den = IF Eng.normalize THEN SumAbs(Last'.h) ELSE 1
             /\ Eng'.stored_h = Last'.h /\ ~Eng'.flagIRchanged /\ Eng'.NFFT # NoSize
       ]_vars

\* C9: an engine built without impulse response raises on a process call
\* without one, whatever the method, and stays uninitialized, so that a later
\* call that brings an impulse response sets it up and returns the correct
\* first block.
C9_LazySetup ==
    [][ProcessStep =>
          /\ (Eng.stored_h = None /\ Last'.h = None)
                => (Last'.err # "" /\ E' = E /\ Uninitialized(Eng'))
          /\ (Eng.stored_h = None /\ Last'.h # None /\ Len(Last'.x) = Eng.B)
                => /\ Last'.err = ""
                   /\ Last'.out = FirstBlock(Last'.x, Last'.h)
                   /\ Last'.den = IF Eng.normalize THEN SumAbs(Last'.h) ELSE 1
       ]_vars

----------------------------------------------------------------------------
(* C10 *)

IsPow2(n) == n >= 1 /\ Pow2(FloorLog2(n)) = n

\* C10: optimize(N, B) returns (L, K) with L a power of two, L <= N, and K in
\* the range scanned for L, which starts at K_min = B + L + (B - gcd(L, B)) - 1
\* (so K >= B + L - 1).
C10_OptimizerReturnsValidPair ==
    opt.done
        => /\ opt.res.err = ""
           /\ IsPow2(opt.res.L)
           /\ opt.res.L <= opt.N
           /\ opt.res.K >= opt.B + opt.res.L - 1
           /\ opt.res.K >= opt.B + opt.res.L + (opt.B - gcd(opt.res.L, opt.B)) - 1

\* the same for N >= 2
C10_ButOneTap ==
    (opt.done /\ opt.N >= 2)
        => /\ opt.res.err = ""
           /\ IsPow2(opt.res.L)
           /\ opt.res.L <= opt.N
           /\ opt.res.K >= opt.B + opt.res.L - 1
           /\ opt.res.K >= opt.B + opt.res.L + (opt.B - gcd(opt.res.L, opt.B)) - 1

----------------------------------------------------------------------------
(* C7 *)

\* the step is a call that returns a block and brings, to an engine that has
\* processed blocks before, an impulse response of the length of the stored
\* one and of other coefficients
SameLengthSwitch ==
    /\ ProcessStep
    /\ ~Eng.flagIRchanged
    /\ Last'.h # None /\ Last'.h # Eng.stored_h /\ Len(Last'.h) = Len(Eng.stored_h)
    /\ Len(Last'.x) = Eng.B
    /\ Last'.err = ""

\* the carry buffer after the call: the old one shifted left by B samples and
\* zero-filled, plus the tail (from sample B on) of this block's convolution
CarryUpdated(after, before, x, H, B) ==
    /\ Len(after) = Len(before)
    /\ \A i \in 1..Len(after) :
          after[i] = IF i <= Len(after) - B
                     THEN before[i + B] + CircConvAt(fft(x, Len(H)), H, B + i, Len(H))
                     ELSE 0

\* each FDL row moved down by one, the transform of the new window in row 0
FDLShifted(after, before, window) ==
    /\ Len(after) = Len(before)
    /\ after[1] = window
    /\ \A r \in 2..Len(after) : after[r] = before[r - 1]

\* what the call may change besides the buffers: the stored impulse response,
\* its reference and H
OnlyIRUpdated ==
    /\ Eng'.stored_h = Last'.h /\ Eng'.ref = SumAbs(Last'.h) /\ HBuiltFrom(Eng', Last'.h)
    /\ Eng'.NFFT = Eng.NFFT /\ Eng'.B = Eng.B /\ Eng'.method = Eng.method
    /\ Eng'.partition = Eng.partition /\ Eng'.normalize = Eng.normalize
    /\ Eng'.len_y_left = Eng.len_y_left /\ ~Eng'.flagIRchanged

----------------------------------------------------------------------------
(* Two engines built alike but for the block size, fed the same stream *)

\* the same method, impulse response, partition argument; B1 < B2; normalize off
BlocksArgs ==
    {a \in [method : MethodArgs, B1 : 1..MaxB, B2 : 1..MaxB, h : IRs,
            partition : {NoSize} \cup (1..MaxL), atCtor : BOOLEAN] :
        a.B1 < a.B2 /\ a.partition \in PartitionArgs(a.method, 1..MaxL)}

ConstructBlocks ==
    /\ pc = "new"
    /\ \E a \in BlocksArgs :
        LET h0 == IF a.atCtor THEN a.h ELSE None
            r1 == init(a.method, a.B1, h0, a.partition, FALSE)
            r2 == init(a.method, a.B2, h0, a.partition, FALSE)
            c(B) == [method |-> a.method, B |-> B, h |-> h0,
                     partition |-> a.partition, normalize |-> FALSE]
        IN /\ r1.err = "" /\ r2.err = ""
           /\ ctor' = << [args |-> c(a.B1), err |-> "", h |-> a.h],
                         [args |-> c(a.B2), err |-> "", h |-> a.h] >>
           /\ E' = << r1.e, r2.e >>
           /\ calls' = << << >>, << >> >>
           /\ pc' = "ready"
    /\ UNCHANGED opt

\* the stream both engines are fed: any before the first call, then the one begun
FeedingBlocks ==
    IF \A i \in DOMAIN calls : calls[i] = << >> THEN StreamNames
    ELSE {s \in StreamNames :
            \E i \in DOMAIN calls : calls[i] # << >> /\ Sample(s, 1) = calls[i][1].x[1]}

\* engine i is given its next block of the stream; the impulse response comes
\* with its first block unless the constructor had it
ProcessBlock ==
    /\ pc = "ready"
    /\ \E i \in DOMAIN E, s \in FeedingBlocks :
        /\ Len(calls[i]) < MaxCalls
        /\ LET x == Block(s, Len(calls[i]) + 1, E[i].B)
               h == IF ctor[i].args.h = None /\ calls[i] = << >> THEN ctor[i].h ELSE None
               r == process(E[i], x, h, FALSE)
           IN /\ E' = [E EXCEPT ![i] = r.e]
              /\ calls' = [calls EXCEPT ![i] = Append(@, CallRecord(x, h, r))]
    /\ UNCHANGED <<ctor, pc, opt>>

NextBlocks == ConstructBlocks \/ ProcessBlock

SpecBlocks == Init /\ [][NextBlocks]_vars

----------------------------------------------------------------------------
(* C11 *)

\* samples engine i has been given so far
Fed(i) == Len(calls[i]) * E[i].B

\* sample n = 1, 2, ... of the concatenated output of engine i
OutAt(i, n) == calls[i][((n - 1) \div E[i].B) + 1].out[((n - 1) % E[i].B) + 1]

\* both engines have been given the same, non-empty, stretch of the stream
SameStretch == pc = "ready" /\ Len(E) = 2 /\ Fed(1) >= 1 /\ Fed(1) = Fed(2)

SameConcatenatedOutput ==
    /\ \A i \in DOMAIN E : \A k \in 1..Len(calls[i]) :
          calls[i][k].err = "" /\ Len(calls[i][k].out) = E[i].B
    /\ \A n \in 1..Fed(1) : OutAt(1, n) = OutAt(2, n)

\* C11: two engines of the same method and impulse response (normalize off),
\* one cutting the stream into blocks of B1 samples and the other into blocks
\* of B2, have returned the same concatenated output whenever both have been
\* given the same stretch of the stream.
C11_BlockSizeInvariance == SameStretch => SameConcatenatedOutput

\* the same, but for the overlap-add engine with NFFT = 1 and the optimizer
\* run on a one-tap impulse response
C11_ButDegenerate ==
    (SameStretch
        /\ ~(IsOLA(E[1]) /\ E[1].NFFT = 1)
        /\ ~(IsUPOLS(E[1]) /\ ctor[1].args.partition = NoSize /\ Len(ctor[1].h) = 1))
        => SameConcatenatedOutput

\* both engines went through a stream of three-tap-filtered samples, the
\* first in more blocks than the second, and agree on a non-zero output
C11_SameOutputReached ==
    /\ SameStretch /\ SameConcatenatedOutput
    /\ Len(calls[1]) > Len(calls[2]) /\ Len(ctor[1].h) >= 2
    /\ OutAt(1, Fed(1)) # 0

----------------------------------------------------------------------------
(* C12 *)

\* numpy can compare the impulse response given to the step with the stored
\* one: equal lengths, or one of them of length 1
Broadcasts == Len(Last'.h) = Len(Eng.stored_h) \/ Len(Last'.h) = 1 \/ Len(Eng.stored_h) = 1

\* the step is a process call in which an UPOLS engine with a caller-supplied
\* partition length runs its setup: the flag is set on entry with an impulse
\* response at hand, or the call brings an impulse response that is stored
SetupWithPartition ==
    /\ ProcessStep /\ IsUPOLS(Eng) /\ Args.partition # NoSize
    /\ \/ Eng.flagIRchanged /\ Last'.h = None /\ Eng.stored_h # None
       \/ Eng.flagIRchanged /\ Last'.h # None /\ (Eng.stored_h = None \/ Broadcasts)
       \/ Last'.h # None /\ Eng.stored_h # Last'.h /\ Eng'.stored_h = Last'.h

\* C12: the setup of UPOLS with a partition length L given by the caller
\* raises nothing for any impulse-response length Nh (Nh < L and Nh not a
\* multiple of L included): it makes P = ceil(Nh / L) partitions, and row m of
\* H is the transform of h[m*L : m*L + L] padded with zeros to L samples and
\* delayed by (m*L) mod B; the call returns a block if x has B samples.
C12_SetupPadsLastPartition ==
    [][SetupWithPartition =>
          /\ Eng'.partition = Args.partition
          /\ Eng'.P = CeilDiv(Len(Eng'.stored_h), Args.partition)
          /\ Len(Eng'.nm) = Eng'.P
          /\ HBuiltFrom(Eng', Eng'.stored_h)
          /\ ~Eng'.flagIRchanged
          /\ Last'.err \in {"", "ValueError"}
          /\ Len(Last'.x) = Eng.B => Last'.err = ""
       ]_vars

\* an UPOLS engine has set up an impulse response longer than the partition
\* length and not a multiple of it, and returned a block; the last row of H
\* holds the partial partition
C12_PartialPartitionReached ==
    /\ Running /\ IsUPOLS(Eng) /\ Args.partition # NoSize /\ Last.err = ""
    /\ Len(Eng.stored_h) > Eng.partition
    /\ Len(Eng.stored_h) % Eng.partition # 0
    /\ Eng.P = (Len(Eng.stored_h) \div Eng.partition) + 1
    /\ \E i \in 1..Eng.NFFT : Eng.H[Eng.P][i] # 0

\* an UPOLS engine has set up an impulse response shorter than the partition
\* length and returned a block
C12_ShortIRReached ==
    /\ Running /\ IsUPOLS(Eng) /\ Args.partition # NoSize /\ Last.err = ""
    /\ Len(Eng.stored_h) < Eng.partition /\ Eng.P = 1

----------------------------------------------------------------------------
(* The constructor on its own, with every spelling of the method *)

MethodSpellings ==
    {"overlap-save", "Overlap-Save", "overlap-add", "Overlap-Add",
     "ols", "OLS", "ola", "OLA", "upols", "UPOLS"}

UnknownMethods == {"fft", "NUPOLS", "overlap_save"}

CtorArgs ==
    [method : MethodSpellings \cup UnknownMethods, B : 1..MaxB, h : {None} \cup IRs,
     partition : {NoSize} \cup (1..MaxL), normalize : BOOLEAN]

ConstructAny ==
    /\ pc = "new"
    /\ \E a \in CtorArgs :
        LET r == init(a.method, a.B, a.h, a.partition, a.normalize)
        IN /\ ctor' = << [args |-> a, err |-> r.err, msg |-> r.msg] >>
           /\ IF r.err = ""
              THEN E' = << r.e >> /\ calls' = << << >> >> /\ pc' = "ready"
              ELSE E' = << >> /\ calls' = << >> /\ pc' = "failed"
    /\ UNCHANGED opt

NextCtor == ConstructAny

SpecCtor == Init /\ [][NextCtor]_vars

----------------------------------------------------------------------------
(* C13 *)

\* the five method names, in the spellings callers use
FiveNames == {"overlap-save", "overlap-add", "ols", "ola", "upols"}

NamesAMethod(m) ==
    \/ m \in FiveNames
    \/ m \in {"Overlap-Save", "Overlap-Add", "OLS", "OLA", "UPOLS"}

\* C13: the constructor given a method that is, whatever the case of its
\* letters, none of overlap-save, overlap-add, ols, ola, upols fails with an
\* error that lists these five names; given one of the five it succeeds.
C13_MethodIsValidated ==
    Constructed =>
        IF NamesAMethod(Args.method)
        THEN ctor[1].err = "" /\ pc = "ready" /\ Eng.method \in FiveNames
        ELSE /\ ctor[1].err = "AssertionError" /\ pc = "failed"
             /\ ctor[1].msg.supported = FiveNames

\* the same, leaving out the optimizer run on a one-tap impulse response
C13_ButOptimizerOnOneTap ==
    (Constructed
        /\ ~(Args.method \in {"upols", "UPOLS"} /\ Args.partition = NoSize
               /\ Args.h # None /\ Len(Args.h) = 1))
        => IF NamesAMethod(Args.method)
           THEN ctor[1].err = "" /\ pc = "ready" /\ Eng.method \in FiveNames
           ELSE /\ ctor[1].err = "AssertionError" /\ pc = "failed"
                /\ ctor[1].msg.supported = FiveNames

----------------------------------------------------------------------------
(* C14 *)

\* the transform of the stored impulse response of e at its NFFT, computed
\* afresh: one spectrum for OLA and OLS, one row per partition for UPOLS
FreshH(e) ==
    IF IsUPOLS(e)
    THEN [m \in 1..CeilDiv(Len(e.stored_h), e.partition) |->
            [i \in 1..e.NFFT |-> PartitionCoef(e.stored_h, e.partition, e.B, m - 1, i)]]
    ELSE [i \in 1..e.NFFT |-> IF i <= Len(e.stored_h) THEN e.stored_h[i] ELSE 0]

\* the block the step returns if H is computed afresh in it: before is the
\* engine on entry, after the engine on return, x the block given
OutputWithFreshH(before, after, x) ==
    IF IsOLS(after)
    THEN LastN(SpecMul(after.OLS_input_buffer, FreshH(after)), after.B)
    ELSE IF IsOLA(after)
    THEN [i \in 1..after.B |->
            CircConvAt(fft(x, after.NFFT), FreshH(after), i, after.NFFT)
            + (IF before.NFFT = NoSize THEN 0 ELSE before.left_overs[i])]
    ELSE LastN(SpecSum([m \in 1..after.P |->
                          SpecMul(after.FDL[after.nm[m] + 1], FreshH(after)[m])],
                       after.NFFT), after.B)

\* C14: a process call that finds the flag cleared and brings no change of
\* impulse response leaves H as it is; every process call that returns a
\* block leaves the flag cleared and H equal to the transform, at the current
\* NFFT, of the stored impulse response, and the block it returns is the one
\* an engine computing H afresh in that call returns.
C14_HIsTransformOfStoredIR ==
    [][(ProcessStep /\ Last'.err = "") =>
          /\ ~Eng'.flagIRchanged
          /\ Eng'.H = FreshH(Eng')
          /\ (~Eng.flagIRchanged /\ Eng'.stored_h = Eng.stored_h) => Eng'.H = Eng.H
          /\ Last'.out = OutputWithFreshH(Eng, Eng', Last'.x)
       ]_vars

\* an engine has returned two blocks, the second without being given an
\* impulse response and not all zero, with the H of the first call
C14_ReusedHReached ==
    /\ Running /\ Len(Calls) = 2 /\ Calls[1].err = "" /\ Calls[2].err = ""
    /\ Calls[2].h = None /\ ~Eng.flagIRchanged
    /\ Len(Eng.stored_h) >= 2
    /\ Eng.H = FreshH(Eng)
    /\ \E i \in 1..Len(Calls[2].out) : Calls[2].out[i] # 0

----------------------------------------------------------------------------
(* C15 *)

\* the engine runs with the pair the optimizer returns for its block size and
\* the length of its stored impulse response
UsesOptimizedPair(e) ==
    LET o == optimize_UPOLS_parameters(Len(e.stored_h), e.B)
    IN o.err = "" /\ e.partition = o.L /\ e.NFFT = o.K

\* C15: an UPOLS engine built without partition size runs, after every call
\* that returns a block, with the partition length and the NFFT that
\* optimize(Nh, B) returns for the length Nh of the stored impulse response,
\* whether the impulse response came with the constructor or with a process
\* call, and also after a change of impulse response.
C15_SetupUsesOptimizer ==
    (Running /\ IsUPOLS(Eng) /\ Args.partition = NoSize /\ Last.err = "")
        => UsesOptimizedPair(Eng)

\* the same for the engines built without impulse response and given one in
\* a single process call
C15_ButGivenAtConstruction ==
    (Running /\ IsUPOLS(Eng) /\ Args.partition = NoSize /\ Last.err = ""
        /\ Args.h = None /\ Cardinality({k \in 1..Len(Calls) : Calls[k].h # None}) = 1)
        => UsesOptimizedPair(Eng)

----------------------------------------------------------------------------
(* C16 *)

\* the UPOLS setup runs in the step: the flag is set on entry, or the step
\* stores another impulse response
SetupInStep == Eng.flagIRchanged \/ Eng'.stored_h # Eng.stored_h

\* every call so far returned a block
AllReturned == \A k \in 1..Len(Calls) : Calls[k].err = ""

\* the NFFT most recent samples of the input after call k, zeros before the
\* start of the stream
WindowAt(k) ==
    [i \in 1..Eng.NFFT |->
        IF k * Eng.B - Eng.NFFT + i >= 1 THEN InputAt(k * Eng.B - Eng.NFFT + i) ELSE 0]

\* row j (from 0) of the FDL holds the window of j calls ago, zeros if there
\* have been no more than j calls
RowsHoldPastWindows ==
    \A j \in 0..(Len(Eng.FDL) - 1) :
        Eng.FDL[j + 1] = IF j < Len(Calls) THEN WindowAt(Len(Calls) - j)
                         ELSE Zeros(Eng.NFFT)

\* C16: every returning call of an UPOLS engine moves each FDL row down by
\* one, drops the oldest and writes the transform of the current input window
\* into row 0 (after a setup the other rows are zero); so n calls after the
\* setup row j holds the transform of the input window of j calls earlier for
\* j < n, and zeros for j >= n.
C16_FDLHoldsPastWindows ==
    [][(ProcessStep /\ IsUPOLS(Eng) /\ Last'.err = "") =>
          /\ Len(Eng'.FDL) >= 1
          /\ \A r \in 1..Len(Eng'.FDL) : Len(Eng'.FDL[r]) = Eng'.NFFT
          /\ Eng'.FDL[1] = Eng'.input_buffer
          /\ IF SetupInStep
             THEN \A r \in 2..Len(Eng'.FDL) : Eng'.FDL[r] = Zeros(Eng'.NFFT)
             ELSE FDLShifted(Eng'.FDL, Eng.FDL, Eng'.input_buffer)
          /\ (AllReturned' /\ FixedIR' /\ GoodShapes') => RowsHoldPastWindows'
       ]_vars

\* an UPOLS engine with an FDL of two rows or more has returned two blocks:
\* row 1 holds the window of the first call
C16_PastWindowReached ==
    /\ Running /\ IsUPOLS(Eng) /\ Len(Calls) = 2 /\ AllReturned /\ FixedIR /\ GoodShapes
    /\ Len(Eng.FDL) >= 2
    /\ Eng.FDL[2] = WindowAt(1)
    /\ Eng.FDL[2][Eng.NFFT] = Calls[1].x[Eng.B]
    /\ Eng.FDL[2] # Eng.FDL[1]

----------------------------------------------------------------------------
(* C17 *)

\* the input ring buffer of an OLS or UPOLS engine
RingBuffer(e) == IF IsOLS(e) THEN e.OLS_input_buffer ELSE e.input_buffer

\* the ring buffer the step shifts: the one on entry, or a zeroed one of
\* length NFFT when the step sets the buffer up (OLS: NFFT not set yet;
\* UPOLS: its setup runs)
BufferShifted ==
    IF (IsOLS(Eng) /\ Eng.NFFT = NoSize) \/ (IsUPOLS(Eng) /\ SetupInStep)
    THEN Zeros(Eng'.NFFT)
    ELSE RingBuffer(Eng)

----------------------------------------------------------------------------
(* C18 *)

\* the UPOLS engine has run its setup
SetUp == pc = "ready" /\ Len(E) >= 1 /\ IsUPOLS(Eng) /\ Eng.P # NoSize

\* the largest active slot
MaxSlot(e) == CHOOSE v \in {e.nm[m] : m \in 1..Len(e.nm)} : \A m \in 1..Len(e.nm) : e.nm[m] <= v

\* C18: once an UPOLS engine has run its setup, P = ceil(Nh / L); for every
\* partition m in 0..P-1 the active slot is floor(m*L / B) and row m of H is
\* the sub-filter h[m*L : m*L + L] delayed by (m*L) mod B samples; the FDL has
\* max(activeSlots) + 1 rows, so every active slot is a row of the FDL.
C18_ActiveSlotsAndDelays ==
    SetUp =>
        /\ Eng.P = CeilDiv(Len(Eng.stored_h), Eng.partition)
        /\ Len(Eng.nm) = Eng.P /\ Len(Eng.H) = Eng.P
        /\ \A m \in 0..(Eng.P - 1) :
              /\ Eng.nm[m + 1] = (m * Eng.partition) \div Eng.B
              /\ \A i \in 1..Eng.NFFT :
                    Eng.H[m + 1][i] =
                        PartitionCoef(Eng.stored_h, Eng.partition, Eng.B, m, i)
              /\ Eng.nm[m + 1] + 1 \in 1..Len(Eng.FDL)
        /\ Len(Eng.FDL) = MaxSlot(Eng) + 1

\* an UPOLS engine is set up with three partitions or more, one of them
\* delayed inside its block and the last one read from a later FDL row
C18_DelayedPartitionReached ==
    /\ SetUp /\ Eng.P >= 3 /\ Last.err = ""
    /\ \E m \in 0..(Eng.P - 1) :
          /\ (m * Eng.partition) % Eng.B # 0
          /\ Eng.H[m + 1][1] = 0 /\ \E i \in 2..Eng.NFFT : Eng.H[m + 1][i] # 0
    /\ Eng.nm[Eng.P] >= 1
    /\ Len(Eng.FDL) = Eng.nm[Eng.P] + 1

----------------------------------------------------------------------------
(* C19 *)

\* sample k of the product of the spectra X and H has no wrapped-around term:
\* the circular convolution equals the sum over the samples up to k
FreeOfWrapAround(X, H, k) == CircConvAt(X, H, k, Len(X)) = CircConvAt(X, H, k, k)

\* C19: once an UPOLS engine has run its setup, every delayed sub-filter fits
\* the transform: ((m*L) mod B) + L + B - 1 <= NFFT for every partition m,
\* whether NFFT is B + L + (B - gcd(L, B)) for a given or stored partition or
\* the K of the optimizer; the last B samples of every partition's product
\* with its FDL row are free of wrap-around.
C19_SubFiltersFitTransform ==
    SetUp =>
        \A m \in 0..(Eng.P - 1) :
            /\ ((m * Eng.partition) % Eng.B) + Eng.partition + Eng.B - 1 <= Eng.NFFT
            /\ \A k \in (Eng.NFFT - Eng.B + 1)..Eng.NFFT :
                  FreeOfWrapAround(Eng.FDL[Eng.nm[m + 1] + 1], Eng.H[m + 1], k)

\* an UPOLS engine runs with the K of the optimizer, smaller than
\* B + L + (B - gcd(L, B)), and has a delayed partition that fills the
\* transform exactly
C19_TightFitReached ==
    /\ SetUp /\ Args.partition = NoSize /\ Args.h = None /\ Last.err = ""
    /\ Eng.NFFT < Eng.B + Eng.partition + (Eng.B - gcd(Eng.partition, Eng.B))
    /\ \E m \in 1..(Eng.P - 1) :
          /\ (m * Eng.partition) % Eng.B # 0
          /\ ((m * Eng.partition) % Eng.B) + Eng.partition + Eng.B - 1 = Eng.NFFT

\* the same fit for every pair the optimizer returns when run on its own
C19_OptimizerPairFits ==
    (opt.done /\ opt.res.err = "")
        => \A m \in 0..(CeilDiv(opt.N, opt.res.L) - 1) :
              ((m * opt.res.L) % opt.B) + opt.res.L + opt.B - 1 <= opt.res.K

====
